---- MODULE Spec2Model ----
(***************************************************************************)
(* Model of Project.ipynb: the notebook that decodes sparse word-count     *)
(* records against a vocabulary, selects the K best columns by chi-squared *)
(* score, fits classifiers and writes the predictions of the test set.     *)
(*                                                                         *)
(* The notebook is run top to bottom; a cell that raises ends the run.     *)
(* The variables are the notebook's globals, pc is the next cell to run.   *)
(* Text is a sequence of one-character strings, so that split, the regex   *)
(* search and the literal parser work on characters as the code does.      *)
(* SelectKBest, chi2 and csr_matrix are scikit-learn (0.23) and scipy      *)
(* calls of the notebook; they are modelled by what these calls do.        *)
(***************************************************************************)
EXTENDS Integers, Sequences, FiniteSets, TLC

VARIABLES pc, vocabulary, train_data_count, dev_data_count, test_data_count,
          word_dict, train_results, full_train_count_values,
          dev_results, full_dev_count_values,
          K, x2, train_count_values, dev_count_values,
          zero_r_predictions, lr_classifier,
          test_results, full_test_count_values, test_count_values,
          test_predictions, predictions_csv,
          fit_calls

vars == <<pc, vocabulary, train_data_count, dev_data_count, test_data_count,
          word_dict, train_results, full_train_count_values,
          dev_results, full_dev_count_values,
          K, x2, train_count_values, dev_count_values,
          zero_r_predictions, lr_classifier,
          test_results, full_test_count_values, test_count_values,
          test_predictions, predictions_csv,
          fit_calls>>

(***************************************************************************)
(* Bounds and alphabets of the inputs.                                     *)
(***************************************************************************)
\* most lines of a count file
MaxLines == 2
\* most (term-id, count) pairs of a record
MaxPairs == 2
\* the most labels in a training label list handed to zero_r alone
MaxLabels == 3

TermNames == <<"a", "b", "c">>
TermIds == {0, 1, 2}
\* the ids a record may name: those of the vocabulary files and one more
RecordIds == TermIds \cup {3}
CountValues == {1, 2}
LabelTexts == {<<"N", "E">>, <<"S">>}

\* a name that is not bound yet, and a bound one
None == <<>>
Some(v) == <<v>>
IsSome(o) == Len(o) = 1
Get(o) == o[1]

Min(S) == CHOOSE x \in S : \A y \in S : x <= y
Max(S) == CHOOSE x \in S : \A y \in S : x >= y

RECURSIVE SumSeq(_)
SumSeq(s) == IF s = <<>> THEN 0 ELSE Head(s) + SumSeq(Tail(s))

\* all sequences over S of length lo..hi
SeqsOf(S, lo, hi) == UNION {[1..n -> S] : n \in lo..hi}

(***************************************************************************)
(* Python's text operations.                                               *)
(***************************************************************************)
QUOTE == "\""
NL == "\n"
TAB == "\t"
Digits == <<"0", "1", "2", "3", "4", "5", "6", "7", "8", "9">>
IsDigit(c) == \E d \in 1..10 : Digits[d] = c
DigitVal(c) == (CHOOSE d \in 1..10 : Digits[d] = c) - 1
IsSpace(c) == c \in {" ", NL, TAB}

\* str.find: the first position of ch at or after i, 0 when there is none
Find(s, ch, i) ==
    LET P == {p \in i..Len(s) : s[p] = ch}
    IN IF P = {} THEN 0 ELSE Min(P)

\* str.split(sep): the fields between the separators, in order
RECURSIVE split(_, _)
split(s, sep) ==
    LET p == Find(s, sep, 1)
    IN IF p = 0 THEN <<s>>
       ELSE <<SubSeq(s, 1, p - 1)>> \o split(SubSeq(s, p + 1, Len(s)), sep)

\* re.search('"(.*?)"', line): group 1 of the leftmost match, None when
\* nothing matches ('.' matches no newline, '*?' stops at the next quote)
re_search_quoted(line) ==
    LET ends(p) == Find(line, QUOTE, p + 1)
        starts == {p \in 1..Len(line) :
                      /\ line[p] = QUOTE
                      /\ ends(p) # 0
                      /\ \A r \in (p + 1)..(ends(p) - 1) : line[r] # NL}
    IN IF starts = {} THEN None
       ELSE Some(SubSeq(line, Min(starts) + 1, ends(Min(starts)) - 1))

\* the value of a run of decimal digits
RECURSIVE DecimalValue(_)
DecimalValue(ds) ==
    IF ds = <<>> THEN 0
    ELSE 10 * DecimalValue(SubSeq(ds, 1, Len(ds) - 1)) + DigitVal(ds[Len(ds)])

\* int(text): surrounding white space is dropped, the rest must be digits
RECURSIVE StripLeft(_)
StripLeft(s) == IF s # <<>> /\ IsSpace(Head(s)) THEN StripLeft(Tail(s)) ELSE s
RECURSIVE StripRight(_)
StripRight(s) ==
    IF s # <<>> /\ IsSpace(s[Len(s)]) THEN StripRight(SubSeq(s, 1, Len(s) - 1)) ELSE s
int(text) ==
    LET body == StripRight(StripLeft(text))
    IN IF body # <<>> /\ \A i \in 1..Len(body) : IsDigit(body[i])
       THEN Some(DecimalValue(body))
       ELSE None

\* the tokens of a literal: numbers and punctuation, blanks between them dropped
DigitRun(s) ==
    LET stops == {p \in 1..Len(s) : ~IsDigit(s[p])}
    IN IF stops = {} THEN Len(s) ELSE Min(stops) - 1
RECURSIVE Tokens(_)
Tokens(s) ==
    IF s = <<>> THEN <<>>
    ELSE IF Head(s) = " " THEN Tokens(Tail(s))
    ELSE IF IsDigit(Head(s))
         THEN LET n == DigitRun(s)
              IN <<[kind |-> "int", ch |-> "", val |-> DecimalValue(SubSeq(s, 1, n))]>>
                 \o Tokens(SubSeq(s, n + 1, Len(s)))
    ELSE <<[kind |-> "punct", ch |-> Head(s), val |-> 0]>> \o Tokens(Tail(s))

IsPunct(tok, c) == tok.kind = "punct" /\ tok.ch = c
\* ast.literal_eval of the payload followed by the unpacking of its items
\* into (index, count): the list of pairs, None when either raises.  The
\* grammar is the one the count files use: [ (int, int), ... ].
literal_eval_pairs(text) ==
    LET t == Tokens(text)
        n == (Len(t) - 1) \div 6
        base(i) == 6 * (i - 1) + 1
        itemOk(i) ==
            /\ IsPunct(t[base(i) + 1], "(")
            /\ t[base(i) + 2].kind = "int"
            /\ IsPunct(t[base(i) + 3], ",")
            /\ t[base(i) + 4].kind = "int"
            /\ IsPunct(t[base(i) + 5], ")")
            /\ IF i < n THEN IsPunct(t[base(i) + 6], ",")
                        ELSE IsPunct(t[base(i) + 6], "]")
    IN IF Len(t) = 2 /\ IsPunct(t[1], "[") /\ IsPunct(t[2], "]") THEN Some(<<>>)
       ELSE IF /\ Len(t) >= 7
               /\ Len(t) = 6 * n + 1
               /\ IsPunct(t[1], "[")
               /\ \A i \in 1..n : itemOk(i)
            THEN Some([i \in 1..n |-> <<t[base(i) + 2].val, t[base(i) + 4].val>>])
       ELSE None

(***************************************************************************)
(* The text of the input files.                                            *)
(***************************************************************************)
RECURSIVE IntText(_)
IntText(n) ==
    IF n < 10 THEN <<Digits[n + 1]>> ELSE IntText(n \div 10) \o <<Digits[(n % 10) + 1]>>

PairText(p) == <<"(">> \o IntText(p[1]) \o <<",", " ">> \o IntText(p[2]) \o <<")">>
RECURSIVE PairsText(_)
PairsText(ps) ==
    IF ps = <<>> THEN <<>>
    ELSE IF Len(ps) = 1 THEN PairText(ps[1])
    ELSE PairText(ps[1]) \o <<",", " ">> \o PairsText(Tail(ps))
ListText(ps) == <<"[">> \o PairsText(ps) \o <<"]">>

\* one record of a count file: label,"[(id, count), ...]"
CountLine(label, ps) == label \o <<",", QUOTE>> \o ListText(ps) \o <<QUOTE, NL>>
\* a record whose literal lacks its closing bracket
TruncatedLine(label, ps) == label \o <<",", QUOTE, "[">> \o PairsText(ps) \o <<QUOTE, NL>>
\* a record whose payload is not quoted
UnquotedLine(label, ps) == label \o <<",">> \o ListText(ps) \o <<NL>>
\* one line of vocab.txt: term<TAB>id
VocabLine(term, id) == <<term, TAB>> \o IntText(id) \o <<NL>>

PairLists == SeqsOf(RecordIds \X CountValues, 0, MaxPairs)

(***************************************************************************)
(* Cell 3: word_dict, a dict in insertion order.                           *)
(***************************************************************************)
\* d[key] = value: a key already present keeps its place and takes the value
\* faulty variant: a key that is set again moves to the end
dict_set_move_to_end(d, key, value) ==
    Append(SelectSeq(d, LAMBDA e : e.key # key), [key |-> key, value |-> value])

dict_set(d, key, value) ==
    IF \E i \in 1..Len(d) : d[i].key = key
    THEN [i \in 1..Len(d) |-> IF d[i].key = key THEN [key |-> key, value |-> value]
                                                 ELSE d[i]]
    ELSE Append(d, [key |-> key, value |-> value])

\* dictionary.values(): the values in insertion order
dict_values(d) == [i \in 1..Len(d) |-> d[i].value]

\* the loop of cell 3 over the lines left, from the dict built so far; a line
\* without a tab (IndexError) or with a non-integer id (ValueError) raises and
\* leaves the dict as built up to that line
RECURSIVE word_dict_loop(_, _)
word_dict_loop(lines, d) ==
    IF lines = <<>> THEN [ok |-> TRUE, dict |-> d]
    ELSE LET split_line == split(Head(lines), TAB)
             id == IF Len(split_line) >= 2 THEN int(split_line[2]) ELSE None
         IN IF id = None THEN [ok |-> FALSE, dict |-> d]
            ELSE word_dict_loop(Tail(lines), dict_set(d, split_line[1], Get(id)))

(***************************************************************************)
(* Cell 4: clean_count_and_labels.                                         *)
(***************************************************************************)
\* {index: count for index, count in count_list}: a later pair replaces an
\* earlier one with the same index
\* faulty variant: the first pair with an index is the one kept
count_dict_first(count_list) ==
    [index \in {count_list[i][1] : i \in 1..Len(count_list)} |->
        count_list[Min({i \in 1..Len(count_list) : count_list[i][1] = index})][2]]

count_dict_of(count_list) ==
    [index \in {count_list[i][1] : i \in 1..Len(count_list)} |->
        count_list[Max({i \in 1..Len(count_list) : count_list[i][1] = index})][2]]

\* faulty variant: the columns without a pair are left out instead of zeroed
count_row_no_zeros(count_dict, dictionary) ==
    LET ids == dict_values(dictionary)
        present == SelectSeq(ids, LAMBDA id : id \in DOMAIN count_dict)
    IN [j \in 1..Len(present) |-> count_dict[present[j]]]

\* faulty variant: the columns follow the ascending ids, not the insertion order
RECURSIVE sorted_ids(_)
sorted_ids(S) == IF S = {} THEN <<>> ELSE <<Min(S)>> \o sorted_ids(S \ {Min(S)})
count_row_by_id(count_dict, dictionary) ==
    LET ids == dict_values(dictionary)
        order == sorted_ids({ids[j] : j \in 1..Len(ids)})
    IN [j \in 1..Len(ids) |->
           IF j <= Len(order) /\ order[j] \in DOMAIN count_dict
           THEN count_dict[order[j]] ELSE 0]

\* the inner loop: one count per value of the dictionary, in its order
count_row(count_dict, dictionary) ==
    LET ids == dict_values(dictionary)
    IN [j \in 1..Len(ids) |->
           IF ids[j] \in DOMAIN count_dict THEN count_dict[ids[j]] ELSE 0]

\* faulty variant: a pair whose index is no value of the dictionary raises
decode_line_strict(line, dictionary) ==
    LET label == split(line, ",")[1]
        payload == re_search_quoted(line)
        count_list == IF payload = None THEN None ELSE literal_eval_pairs(Get(payload))
        ids == dict_values(dictionary)
    IN IF count_list = None THEN None
       ELSE IF \E p \in 1..Len(Get(count_list)) :
                  \A j \in 1..Len(ids) : ids[j] # Get(count_list)[p][1]
            THEN None
       ELSE Some([label |-> label,
                  row |-> count_row(count_dict_of(Get(count_list)), dictionary)])

\* the body of the loop for one line: its label and its row, None when the
\* regex finds no quoted payload or the payload does not parse (both raise)
decode_line(line, dictionary) ==
    LET label == split(line, ",")[1]
        payload == re_search_quoted(line)
        count_list == IF payload = None THEN None ELSE literal_eval_pairs(Get(payload))
    IN IF count_list = None THEN None
       ELSE Some([label |-> label,
                  row |-> count_row(count_dict_of(Get(count_list)), dictionary)])

\* faulty variant: the rows and labels are collected in reverse order
RECURSIVE clean_loop_reversed(_, _, _, _)
clean_loop_reversed(lines, dictionary, count, labels) ==
    IF lines = <<>> THEN Some([count |-> count, labels |-> labels])
    ELSE LET r == decode_line(Head(lines), dictionary)
         IN IF r = None THEN None
            ELSE clean_loop_reversed(Tail(lines), dictionary,
                                     <<Get(r).row>> \o count, <<Get(r).label>> \o labels)

\* faulty variant: a line that does not decode is skipped
RECURSIVE clean_loop_skipping(_, _, _, _)
clean_loop_skipping(lines, dictionary, count, labels) ==
    IF lines = <<>> THEN Some([count |-> count, labels |-> labels])
    ELSE LET r == decode_line(Head(lines), dictionary)
         IN IF r = None THEN clean_loop_skipping(Tail(lines), dictionary, count, labels)
            ELSE clean_loop_skipping(Tail(lines), dictionary,
                                     Append(count, Get(r).row), Append(labels, Get(r).label))

RECURSIVE clean_loop(_, _, _, _)
clean_loop(lines, dictionary, count, labels) ==
    IF lines = <<>> THEN Some([count |-> count, labels |-> labels])
    ELSE LET r == decode_line(Head(lines), dictionary)
         IN IF r = None THEN None
            ELSE clean_loop(Tail(lines), dictionary,
                            Append(count, Get(r).row), Append(labels, Get(r).label))

\* the (count, labels) the function returns, None when it raises
clean_count_and_labels(raw_count_data, dictionary) ==
    clean_loop(raw_count_data, dictionary, <<>>, <<>>)

(***************************************************************************)
(* Matrices.  Rows and columns are numbered from 1 here (Python's column j *)
(* is column j + 1).  A csr matrix keeps its shape and its non-zero        *)
(* entries; an ndarray is kept the same way and differs in its methods.    *)
(***************************************************************************)
\* csr_matrix(list of rows); an empty list makes a 1 x 0 matrix
csr_matrix(count) ==
    LET n == Len(count)
        m == IF n = 0 THEN 0 ELSE Len(count[1])
    IN [fmt |-> "csr",
        shape |-> IF n = 0 THEN <<1, 0>> ELSE <<n, m>>,
        nz |-> {<<i, j, count[i][j]>> : i \in 1..n, j \in 1..m} \
                  {<<i, j, 0>> : i \in 1..n, j \in 1..m}]

Entry(M, i, j) ==
    LET S == {t \in M.nz : t[1] = i /\ t[2] = j}
    IN IF S = {} THEN 0 ELSE (CHOOSE t \in S : TRUE)[3]

\* M.todense(): the rows as lists
todense(M) == [i \in 1..M.shape[1] |-> [j \in 1..M.shape[2] |-> Entry(M, i, j)]]

(***************************************************************************)
(* Cell 7: SelectKBest(chi2, k=K), as scikit-learn computes it.            *)
(***************************************************************************)
RECURSIVE SetToSeq(_)
SetToSeq(S) ==
    IF S = {} THEN <<>>
    ELSE LET x == CHOOSE x \in S : TRUE IN <<x>> \o SetToSeq(S \ {x})

RECURSIVE ProdSeq(_)
ProdSeq(s) == IF s = <<>> THEN 1 ELSE Head(s) * ProdSeq(Tail(s))

\* chi2(X, y): one score per column.  With N rows, n_c rows of class c, F the
\* column's total and O_c its total over the rows of class c, the score is
\* the sum over the classes of (O_c - n_c F / N)^2 / (n_c F / N), kept as the
\* exact fraction num / den with den = N * F * (the product of the n_c).  It
\* is NaN (0 / 0) when the column is all zero, and for every column when y
\* holds a single class (the binarised labels then have an empty class).
chi2(X, y) ==
    LET N == X.shape[1]
        classes == SetToSeq({y[i] : i \in 1..Len(y)})
        n(c) == Cardinality({i \in 1..N : y[i] = classes[c]})
        P == ProdSeq([c \in 1..Len(classes) |-> n(c)])
        F(j) == SumSeq([i \in 1..N |-> Entry(X, i, j)])
        O(c, j) == SumSeq([i \in 1..N |-> IF y[i] = classes[c] THEN Entry(X, i, j) ELSE 0])
        sq(z) == z * z
    IN [j \in 1..X.shape[2] |->
          IF Len(classes) < 2 \/ F(j) = 0
          THEN [nan |-> TRUE, num |-> 0, den |-> 1]
          ELSE [nan |-> FALSE,
                num |-> SumSeq([c \in 1..Len(classes) |->
                                   sq(N * O(c, j) - n(c) * F(j)) * (P \div n(c))]),
                den |-> N * F(j) * P]]

\* the order of two scores after _clean_nans, which puts NaN below every number
ScoreLess(a, b) ==
    IF b.nan THEN FALSE
    ELSE IF a.nan THEN TRUE
    ELSE a.num * b.den < b.num * a.den

\* np.argsort(scores, kind="mergesort"): the column indices by ascending
\* score, equal scores in their original order
RECURSIVE argsort_insert(_, _, _)
argsort_insert(order, scores, j) ==
    IF order = <<>> THEN <<j>>
    ELSE IF ScoreLess(scores[j], scores[order[Len(order)]])
         THEN Append(argsort_insert(SubSeq(order, 1, Len(order) - 1), scores, j),
                     order[Len(order)])
    ELSE Append(order, j)
RECURSIVE argsort_upto(_, _)
argsort_upto(scores, m) ==
    IF m = 0 THEN <<>> ELSE argsort_insert(argsort_upto(scores, m - 1), scores, m)
argsort(scores) == argsort_upto(scores, Len(scores))

\* SelectKBest(chi2, k=K): the selector before fit
SelectKBest(k) == [k |-> k, scores_ |-> None]

\* faulty variant: k is not checked against the number of columns
fit_unchecked(selector, X, y) ==
    IF \/ X.shape[1] < 1 \/ X.shape[2] < 1 \/ Len(y) # X.shape[1]
       \/ selector.k < 0
    THEN None
    ELSE Some([selector EXCEPT !.scores_ = Some(chi2(X, y))])

\* x2.fit(X, y): the fitted selector, None when fit raises: a matrix without a
\* row or a column or with another number of rows than y has labels
\* (check_X_y), or a k outside 0..n_features (_check_params)
fit(selector, X, y) ==
    IF \/ X.shape[1] < 1 \/ X.shape[2] < 1 \/ Len(y) # X.shape[1]
       \/ ~(0 <= selector.k /\ selector.k <= X.shape[2])
    THEN None
    ELSE Some([selector EXCEPT !.scores_ = Some(chi2(X, y))])

\* faulty variant: the first k indices of the ascending order are taken
get_support_mask_first(selector) ==
    LET scores == Get(selector.scores_)
        order == argsort(scores)
        m == Len(scores)
    IN [j \in 1..m |-> j \in {order[p] : p \in 1..Min({m, selector.k})}]

\* _get_support_mask: the last k indices of the ascending stable order (the
\* slice [-k:]); no index when k is 0
get_support_mask(selector) ==
    LET scores == Get(selector.scores_)
        order == argsort(scores)
        m == Len(scores)
        last == {order[p] : p \in Max({1, m - selector.k + 1})..m}
    IN IF selector.k = 0 THEN [j \in 1..m |-> FALSE]
       ELSE [j \in 1..m |-> j \in last]

\* get_support(indices=True): the selected columns, ascending
RECURSIVE support_upto(_, _)
support_upto(mask, m) ==
    IF m = 0 THEN <<>>
    ELSE IF mask[m] THEN Append(support_upto(mask, m - 1), m)
    ELSE support_upto(mask, m - 1)
get_support(selector) ==
    LET mask == get_support_mask(selector) IN support_upto(mask, Len(mask))

\* faulty variant: the columns are taken in the reverse order of idx
take_columns_reversed(X, idx) ==
    [fmt |-> X.fmt,
     shape |-> <<X.shape[1], Len(idx)>>,
     nz |-> {<<i, p, Entry(X, i, idx[Len(idx) + 1 - p])>> :
                i \in 1..X.shape[1], p \in 1..Len(idx)} \
               {<<i, p, 0>> : i \in 1..X.shape[1], p \in 1..Len(idx)}]

\* X[:, mask]: the columns idx of X, renumbered in the order of idx
take_columns(X, idx) ==
    [fmt |-> X.fmt,
     shape |-> <<X.shape[1], Len(idx)>>,
     nz |-> {<<i, p, Entry(X, i, idx[p])>> : i \in 1..X.shape[1], p \in 1..Len(idx)} \
               {<<i, p, 0>> : i \in 1..X.shape[1], p \in 1..Len(idx)}]

\* faulty variant: the selected columns are put out by descending score
transform_by_rank(selector, X) ==
    IF selector.scores_ = None \/ X.shape[1] < 1 \/ X.shape[2] < 1 THEN None
    ELSE IF get_support(selector) = <<>>
         THEN Some([fmt |-> "ndarray", shape |-> <<X.shape[1], 0>>, nz |-> {}])
    ELSE IF Len(Get(selector.scores_)) # X.shape[2] THEN None
    ELSE LET order == argsort(Get(selector.scores_))
             m == Len(order)
             k == Len(get_support(selector))
         IN Some(take_columns(X, [p \in 1..k |-> order[m + 1 - p]]))

\* x2.transform(X): None when it raises (selector not fitted, X without a row
\* or a column, X of another width than the fitted matrix); an empty ndarray
\* (with a warning) when no column is selected
transform(selector, X) ==
    IF selector.scores_ = None \/ X.shape[1] < 1 \/ X.shape[2] < 1 THEN None
    ELSE IF get_support(selector) = <<>>
         THEN Some([fmt |-> "ndarray", shape |-> <<X.shape[1], 0>>, nz |-> {}])
    ELSE IF Len(Get(selector.scores_)) # X.shape[2] THEN None
    ELSE Some(take_columns(X, get_support(selector)))

(***************************************************************************)
(* Cell 8: zero_r.                                                         *)
(***************************************************************************)
\* the Counter built by the loop: label -> frequency, in first-seen order
RECURSIVE label_counts_of(_)
label_counts_of(labels) ==
    IF labels = <<>> THEN <<>>
    ELSE LET d == label_counts_of(SubSeq(labels, 1, Len(labels) - 1))
             label == labels[Len(labels)]
             old == {d[i].value : i \in {i \in 1..Len(d) : d[i].key = label}}
         IN dict_set(d, label, IF old = {} THEN 1 ELSE 1 + Max(old))

\* faulty variant: the first-seen label, whatever its frequency
majority_class_first_seen(label_counts) ==
    IF label_counts = <<>> THEN None ELSE Some(label_counts[1].key)

\* faulty variant: of the labels of the highest frequency, the last-seen one
majority_class_last_seen(label_counts) ==
    IF label_counts = <<>> THEN None
    ELSE LET top == Max({label_counts[i].value : i \in 1..Len(label_counts)})
         IN Some(label_counts[Max({i \in 1..Len(label_counts) :
                                      label_counts[i].value = top})].key)

\* most_common()[0][0]: the stable descending sort puts first the first-seen
\* label among those of the highest frequency; None (IndexError) on no label
majority_class_of(label_counts) ==
    IF label_counts = <<>> THEN None
    ELSE LET top == Max({label_counts[i].value : i \in 1..Len(label_counts)})
         IN Some(label_counts[Min({i \in 1..Len(label_counts) :
                                      label_counts[i].value = top})].key)

\* the predictions, None when it raises (no training label; test_features an
\* ndarray, which has no todense)
zero_r(labels, test_features) ==
    LET majority_class == majority_class_of(label_counts_of(labels))
    IN IF majority_class = None \/ test_features.fmt # "csr" THEN None
       ELSE Some([i \in 1..Len(todense(test_features)) |-> Get(majority_class)])

(***************************************************************************)
(* The input files.                                                        *)
(***************************************************************************)
\* the term of each line, up to renaming: a line repeats an earlier term or
\* takes the next unused name
TermChoices(n) ==
    {t \in [1..n -> 1..Len(TermNames)] :
        \A i \in 1..n : t[i] <= 1 + Max({0} \cup {t[k] : k \in 1..(i - 1)})}
\* vocab.txt: up to one line per term name, any id on each line
VocabFiles ==
    UNION {{[i \in 1..n |-> VocabLine(TermNames[t[i]], ids[i])] :
               t \in TermChoices(n), ids \in [1..n -> TermIds]} :
           n \in 1..Len(TermNames)}

\* the records of each kind that the longer files are made of
SampleLines ==
    {CountLine(<<"N", "E">>, <<<<0, 2>>, <<2, 1>>>>),
     CountLine(<<"S">>, <<<<1, 1>>>>),
     TruncatedLine(<<"S">>, <<<<0, 1>>>>)}
\* every record, well formed or not
AllLines ==
    {CountLine(<<"S">>, ps) : ps \in PairLists}
    \cup {TruncatedLine(<<"S">>, <<<<0, 1>>>>), UnquotedLine(<<"S">>, <<<<0, 1>>>>)}
\* the count files of the decoder's check: every record alone, and every file
\* of up to MaxLines sample records
DecodeFiles == {<<l>> : l \in AllLines} \cup SeqsOf(SampleLines, 2, MaxLines)

\* the files of the whole run
RunVocabFiles ==
    {<<VocabLine("a", 0), VocabLine("b", 1), VocabLine("c", 2)>>,
     <<VocabLine("b", 2), VocabLine("a", 0)>>}
TrainFiles == SeqsOf(SampleLines, 1, MaxLines)
DevLine == CountLine(<<"S">>, <<<<0, 1>>, <<1, 2>>>>)
DevFiles ==
    {<<DevLine>>, <<DevLine, DevLine>>,
     <<UnquotedLine(<<"S">>, <<>>)>>, <<DevLine, UnquotedLine(<<"S">>, <<>>)>>}
TestLine == CountLine(<<"?">>, <<<<0, 1>>, <<3, 1>>>>)
TestFiles ==
    {<<TestLine>>, <<TestLine, TestLine>>,
     <<TruncatedLine(<<"?">>, <<<<2, 2>>>>)>>,
     <<TestLine, TruncatedLine(<<"?">>, <<<<2, 2>>>>)>>}

\* the k the selector is built with: the notebook's K, scaled to the model's
\* vocabularies so that it falls below, within and above their sizes
KValues == (0 - 1)..(Len(TermNames) + 1)

(***************************************************************************)
(* The run.  Init is the state after cell 2 has read the files.            *)
(***************************************************************************)
files == <<vocabulary, train_data_count, dev_data_count, test_data_count>>
trainVars == <<train_results, full_train_count_values>>
devVars == <<dev_results, full_dev_count_values>>
\* fit_calls: the number of calls of x2.fit so far
selVars == <<K, x2, fit_calls>>
projVars == <<train_count_values, dev_count_values>>
clfVars == <<zero_r_predictions, lr_classifier>>
testVars == <<test_results, full_test_count_values, test_count_values,
              test_predictions, predictions_csv>>

InitFiles(voc, tr, dv, te) ==
    /\ pc = "cell3"
    /\ vocabulary = voc
    /\ train_data_count = tr
    /\ dev_data_count = dv
    /\ test_data_count = te
    /\ word_dict = <<>>
    /\ train_results = None /\ full_train_count_values = None
    /\ dev_results = None /\ full_dev_count_values = None
    /\ K = None /\ x2 = None /\ fit_calls = 0
    /\ train_count_values = None /\ dev_count_values = None
    /\ zero_r_predictions = None /\ lr_classifier = None
    /\ test_results = None /\ full_test_count_values = None
    /\ test_count_values = None /\ test_predictions = None
    /\ predictions_csv = None

Init ==
    \E voc \in RunVocabFiles, tr \in TrainFiles, dv \in DevFiles, te \in TestFiles :
        InitFiles(voc, tr, dv, te)

\* cell 3: word_dict from the lines of vocab.txt
Cell3 ==
    /\ pc = "cell3"
    /\ LET r == word_dict_loop(vocabulary, <<>>)
       IN /\ word_dict' = r.dict
          /\ pc' = IF r.ok THEN "cell5" ELSE "error"
    /\ UNCHANGED <<files, trainVars, devVars, selVars, projVars, clfVars, testVars>>

\* the matrix of a result of clean_count_and_labels
matrix_of(results) == IF results = None THEN None ELSE Some(csr_matrix(Get(results).count))

\* cell 5: the training matrix and labels
Cell5 ==
    /\ pc = "cell5"
    /\ LET r == clean_count_and_labels(train_data_count, word_dict)
       IN /\ train_results' = r
          /\ full_train_count_values' = matrix_of(r)
          /\ pc' = IF r = None THEN "error" ELSE "cell6"
    /\ UNCHANGED <<files, word_dict, devVars, selVars, projVars, clfVars, testVars>>

\* cell 6: the development matrix and labels
Cell6 ==
    /\ pc = "cell6"
    /\ LET r == clean_count_and_labels(dev_data_count, word_dict)
       IN /\ dev_results' = r
          /\ full_dev_count_values' = matrix_of(r)
          /\ pc' = IF r = None THEN "error" ELSE "cell7"
    /\ UNCHANGED <<files, word_dict, trainVars, selVars, projVars, clfVars, testVars>>

train_labels == Get(train_results).labels
dev_labels == Get(dev_results).labels

\* cell 7, K = 500 and x2 = SelectKBest(chi2, k=K)
Cell7Select ==
    /\ pc = "cell7"
    /\ \E k \in KValues :
          /\ K' = Some(k)
          /\ x2' = Some(SelectKBest(k))
    /\ pc' = "cell7fit"
    /\ UNCHANGED <<files, word_dict, trainVars, devVars, fit_calls, projVars, clfVars,
                   testVars>>

\* faulty variant: the selector is fitted on the development set
Cell7FitOnDev ==
    /\ pc = "cell7fit"
    /\ LET r == fit(Get(x2), Get(full_dev_count_values), dev_labels)
       IN /\ x2' = IF r = None THEN x2 ELSE r
          /\ pc' = IF r = None THEN "error" ELSE "cell7train"
    /\ fit_calls' = fit_calls + 1
    /\ UNCHANGED <<files, word_dict, trainVars, devVars, K, projVars, clfVars, testVars>>

\* faulty variant: the test matrix is built before the selector is fitted
Cell7FitAfterTestBuild ==
    /\ pc = "cell7fit"
    /\ LET t == clean_count_and_labels(test_data_count, word_dict)
           r == IF t = None THEN None
                ELSE fit(Get(x2), Get(full_train_count_values), train_labels)
       IN /\ test_results' = t
          /\ full_test_count_values' = matrix_of(t)
          /\ x2' = IF r = None THEN x2 ELSE r
          /\ fit_calls' = IF t = None THEN fit_calls ELSE fit_calls + 1
          /\ pc' = IF r = None THEN "error" ELSE "cell7train"
    /\ UNCHANGED <<files, word_dict, trainVars, devVars, K, projVars, clfVars,
                   test_count_values, test_predictions, predictions_csv>>

\* cell 7, x2.fit(full_train_count_values, train_labels)
Cell7Fit ==
    /\ pc = "cell7fit"
    /\ LET r == fit(Get(x2), Get(full_train_count_values), train_labels)
       IN /\ x2' = IF r = None THEN x2 ELSE r
          /\ pc' = IF r = None THEN "error" ELSE "cell7train"
    /\ fit_calls' = fit_calls + 1
    /\ UNCHANGED <<files, word_dict, trainVars, devVars, K, projVars, clfVars, testVars>>

\* cell 7, train_count_values = x2.transform(full_train_count_values)
Cell7TransformTrain ==
    /\ pc = "cell7train"
    /\ LET r == transform(Get(x2), Get(full_train_count_values))
       IN /\ train_count_values' = r
          /\ pc' = IF r = None THEN "error" ELSE "cell7dev"
    /\ UNCHANGED <<files, word_dict, trainVars, devVars, selVars, dev_count_values,
                   clfVars, testVars>>

\* faulty variant: the selector is fitted on the training set a second time
\* before the development set is projected
Cell7TransformDevRefit ==
    /\ pc = "cell7dev"
    /\ LET f == fit(Get(x2), Get(full_train_count_values), train_labels)
           r == transform(Get(f), Get(full_dev_count_values))
       IN /\ x2' = f
          /\ dev_count_values' = r
          /\ pc' = IF r = None THEN "error" ELSE "cell9"
    /\ fit_calls' = fit_calls + 1
    /\ UNCHANGED <<files, word_dict, trainVars, devVars, K, train_count_values,
                   clfVars, testVars>>

\* faulty variant: the projection also replaces the matrix it was made from
Cell7TransformDevInPlace ==
    /\ pc = "cell7dev"
    /\ LET r == transform(Get(x2), Get(full_dev_count_values))
       IN /\ dev_count_values' = r
          /\ full_dev_count_values' = IF r = None THEN full_dev_count_values ELSE r
          /\ pc' = IF r = None THEN "error" ELSE "cell9"
    /\ UNCHANGED <<files, word_dict, trainVars, dev_results, selVars,
                   train_count_values, clfVars, testVars>>

\* cell 7, dev_count_values = x2.transform(full_dev_count_values)
Cell7TransformDev ==
    /\ pc = "cell7dev"
    /\ LET r == transform(Get(x2), Get(full_dev_count_values))
       IN /\ dev_count_values' = r
          /\ pc' = IF r = None THEN "error" ELSE "cell9"
    /\ UNCHANGED <<files, word_dict, trainVars, devVars, selVars, train_count_values,
                   clfVars, testVars>>

\* cell 9: zero_r_predictions = zero_r(train_labels, dev_count_values)
Cell9 ==
    /\ pc = "cell9"
    /\ LET r == zero_r(train_labels, Get(dev_count_values))
       IN /\ zero_r_predictions' = r
          /\ pc' = IF r = None THEN "error" ELSE "cell10"
    /\ UNCHANGED <<files, word_dict, trainVars, devVars, selVars, projVars,
                   lr_classifier, testVars>>

\* what a classifier keeps of fit(X, y) for predict: the classes of y and the
\* width of X; None when fit raises (X without a column; for logistic
\* regression, fewer than two classes)
classifier_fit(X, y) ==
    LET classes == {y[i] : i \in 1..Len(y)}
    IN IF X.shape[2] < 1 \/ Cardinality(classes) < 2 THEN None
       ELSE Some([classes |-> classes, n_features |-> X.shape[2]])

\* cells 10 to 17: the four classifiers are fitted on the projected training
\* matrix and predict the development set; lr_classifier is the one kept for
\* the test set (the predictions of the development set are only printed)
Cell10to17 ==
    /\ pc = "cell10"
    /\ LET r == classifier_fit(Get(train_count_values), train_labels)
       IN /\ lr_classifier' = r
          /\ pc' = IF r = None THEN "error" ELSE "cell18"
    /\ UNCHANGED <<files, word_dict, trainVars, devVars, selVars, projVars,
                   zero_r_predictions, testVars>>

\* cells 18 to 20: the scores and the bar chart, which bind nothing that is
\* read later
Cell18to20 ==
    /\ pc = "cell18"
    /\ pc' = "cell21"
    /\ UNCHANGED <<files, word_dict, trainVars, devVars, selVars, projVars, clfVars,
                   testVars>>

\* faulty variant: the selector is fitted again, on the test set
Cell21Refit ==
    /\ pc = "cell21"
    /\ LET r == clean_count_and_labels(test_data_count, word_dict)
           f == IF r = None THEN None
                ELSE fit(Get(x2), Get(matrix_of(r)), Get(r).labels)
           t == IF f = None THEN None ELSE transform(Get(f), Get(matrix_of(r)))
       IN /\ test_results' = r
          /\ full_test_count_values' = matrix_of(r)
          /\ x2' = IF f = None THEN x2 ELSE f
          /\ fit_calls' = IF r = None THEN fit_calls ELSE fit_calls + 1
          /\ test_count_values' = t
          /\ pc' = IF t = None THEN "error" ELSE "cell22"
    /\ UNCHANGED <<files, word_dict, trainVars, devVars, K, projVars, clfVars,
                   test_predictions, predictions_csv>>

\* cell 21: the test matrix and its projection
Cell21 ==
    /\ pc = "cell21"
    /\ LET r == clean_count_and_labels(test_data_count, word_dict)
           t == IF r = None THEN None ELSE transform(Get(x2), Get(matrix_of(r)))
       IN /\ test_results' = r
          /\ full_test_count_values' = matrix_of(r)
          /\ test_count_values' = t
          /\ pc' = IF t = None THEN "error" ELSE "cell22"
    /\ UNCHANGED <<files, word_dict, trainVars, devVars, selVars, projVars, clfVars,
                   test_predictions, predictions_csv>>

\* cell 22: test_predictions = list(lr_classifier.predict(test_count_values));
\* the classifier is a black box that answers one of its classes per row
Cell22 ==
    /\ pc = "cell22"
    /\ IF Get(test_count_values).shape[2] # Get(lr_classifier).n_features
       THEN /\ pc' = "error"
            /\ UNCHANGED test_predictions
       ELSE /\ \E p \in [1..Get(test_count_values).shape[1] -> Get(lr_classifier).classes] :
                  test_predictions' = Some(p)
            /\ pc' = "cell23"
    /\ UNCHANGED <<files, word_dict, trainVars, devVars, selVars, projVars, clfVars,
                   test_results, full_test_count_values, test_count_values,
                   predictions_csv>>

\* faulty variant: the ids start at 0
csv_rows_from_zero(predictions) ==
    <<<<<<"i", "d">>, <<"r", "e", "g", "i", "o", "n">>>>>>
    \o [i \in 1..Len(predictions) |-> <<IntText(i - 1), predictions[i]>>]

\* the rows csv.writer writes: the header, then [i, prediction] for i = 1, 2, ...
csv_rows(predictions) ==
    <<<<<<"i", "d">>, <<"r", "e", "g", "i", "o", "n">>>>>>
    \o [i \in 1..Len(predictions) |-> <<IntText(i), predictions[i]>>]

\* cell 23: predictions.csv
Cell23 ==
    /\ pc = "cell23"
    /\ predictions_csv' = Some(csv_rows(Get(test_predictions)))
    /\ pc' = "done"
    /\ UNCHANGED <<files, word_dict, trainVars, devVars, selVars, projVars, clfVars,
                   test_results, full_test_count_values, test_count_values,
                   test_predictions>>

Next ==
    \/ Cell3 \/ Cell5 \/ Cell6
    \/ Cell7Select \/ Cell7Fit \/ Cell7TransformTrain \/ Cell7TransformDev
    \/ Cell9 \/ Cell10to17 \/ Cell18to20 \/ Cell21 \/ Cell22 \/ Cell23

Spec == Init /\ [][Next]_vars

(***************************************************************************)
(* The decoder alone: cells 3 and 5 on every vocabulary file and every     *)
(* record.                                                                 *)
(***************************************************************************)
\* the terms of a vocabulary file, line by line
terms_of(voc) == [i \in 1..Len(voc) |-> split(voc[i], TAB)[1]]
DistinctTerms(voc) ==
    \A i, k \in 1..Len(voc) : terms_of(voc)[i] = terms_of(voc)[k] => i = k

\* every vocabulary file with every file of sample records, and every
\* vocabulary file of distinct terms with every record
InitDecode ==
    \E voc \in VocabFiles, tr \in DecodeFiles :
        /\ DistinctTerms(voc) \/ tr \in SeqsOf(SampleLines, 1, MaxLines)
        /\ InitFiles(voc, tr, <<CountLine(<<"S">>, <<>>)>>, <<CountLine(<<"?">>, <<>>)>>)

NextDecode == Cell3 \/ Cell5

SpecDecode == InitDecode /\ [][NextDecode]_vars

(***************************************************************************)
(* The selector alone: cell 7 from the state after cell 6, on every small  *)
(* training matrix.                                                        *)
(***************************************************************************)
\* the pairs of a dense row, by ascending id
RECURSIVE row_pairs(_, _)
row_pairs(row, m) ==
    IF m = 0 THEN <<>>
    ELSE IF row[m] # 0 THEN Append(row_pairs(row, m - 1), <<m - 1, row[m]>>)
    ELSE row_pairs(row, m - 1)

\* the rows of m columns: every row of zeros and ones, and the first m counts
\* of the row [2, 0, 1]
SelectRows(m) == [1..m -> {0, 1}] \cup {SubSeq(<<2, 0, 1>>, 1, m)}

\* the vocabulary file of the first m terms with the ids 0, 1, ...
PlainVocab(m) == [i \in 1..m |-> VocabLine(TermNames[i], i - 1)]

\* the state cells 3 to 6 leave on files that they read without raising
AfterCell6(voc, tr, dv, te) ==
    LET wd == word_dict_loop(voc, <<>>).dict
        trr == clean_count_and_labels(tr, wd)
        dvr == clean_count_and_labels(dv, wd)
    IN /\ pc = "cell7"
       /\ vocabulary = voc
       /\ train_data_count = tr
       /\ dev_data_count = dv
       /\ test_data_count = te
       /\ word_dict = wd
       /\ train_results = trr /\ full_train_count_values = matrix_of(trr)
       /\ dev_results = dvr /\ full_dev_count_values = matrix_of(dvr)
       /\ K = None /\ x2 = None /\ fit_calls = 0
       /\ train_count_values = None /\ dev_count_values = None
       /\ zero_r_predictions = None /\ lr_classifier = None
       /\ test_results = None /\ full_test_count_values = None
       /\ test_count_values = None /\ test_predictions = None
       /\ predictions_csv = None

InitSelect ==
    \E m \in 1..Len(TermNames), n \in 1..MaxLines :
        \E rows \in [1..n -> SelectRows(m)], labels \in [1..n -> LabelTexts] :
            AfterCell6(PlainVocab(m),
                       [i \in 1..n |-> CountLine(labels[i], row_pairs(rows[i], m))],
                       <<CountLine(<<"S">>, <<<<0, 1>>>>)>>,
                       <<CountLine(<<"?">>, <<>>)>>)

NextSelect == Cell7Select \/ Cell7Fit \/ Cell7TransformTrain \/ Cell7TransformDev

SpecSelect == InitSelect /\ [][NextSelect]_vars

(***************************************************************************)
(* zero_r alone: the call of cell 9 on every short label list, the empty   *)
(* one included, and on small feature matrices.                            *)
(***************************************************************************)
\* the rows of the feature matrices
ZeroRRows == {<<0, 0>>, <<2, 1>>}
\* the feature matrices: sparse ones, and the dense array without columns
\* that transform returns when no column is selected
ZeroRFeatures ==
    {csr_matrix(c) : c \in SeqsOf(ZeroRRows, 1, MaxLines)}
    \cup {[fmt |-> "ndarray", shape |-> <<n, 0>>, nz |-> {}] : n \in 1..MaxLines}

\* the state in which cell 9 calls zero_r(labels, features); only the two
\* arguments are bound
InitZeroR ==
    \E labels \in SeqsOf(LabelTexts, 0, MaxLabels), features \in ZeroRFeatures :
        /\ pc = "cell9"
        /\ vocabulary = <<>> /\ train_data_count = <<>>
        /\ dev_data_count = <<>> /\ test_data_count = <<>>
        /\ word_dict = <<>>
        /\ train_results = Some([count |-> [i \in 1..Len(labels) |-> <<>>],
                                 labels |-> labels])
        /\ full_train_count_values = None
        /\ dev_results = None /\ full_dev_count_values = None
        /\ K = None /\ x2 = None /\ fit_calls = 0
        /\ train_count_values = None /\ dev_count_values = Some(features)
        /\ zero_r_predictions = None /\ lr_classifier = None
        /\ test_results = None /\ full_test_count_values = None
        /\ test_count_values = None /\ test_predictions = None
        /\ predictions_csv = None

NextZeroR == Cell9

SpecZeroR == InitZeroR /\ [][NextZeroR]_vars

(***************************************************************************)
(* Properties.                                                             *)
(***************************************************************************)
AllLabelTexts == LabelTexts \cup {<<"?">>}
\* a line is a record of a count file, and the label and pairs it was written from
Records == AllLabelTexts \X PairLists
LineTable == [r \in Records |-> CountLine(r[1], r[2])]
CountLines == {LineTable[r] : r \in Records}
RecordTable == [line \in CountLines |-> CHOOSE r \in Records : LineTable[r] = line]
IsCountLine(line) == line \in CountLines
RecordOf(line) == RecordTable[line]
PairIds(ps) == {ps[i][1] : i \in 1..Len(ps)}
PairCounts(ps) == [i \in 1..Len(ps) |-> ps[i][2]]
NoRepeatedId(ps) == \A i, k \in 1..Len(ps) : ps[i][1] = ps[k][1] => i = k
VocabIds == {word_dict[j].value : j \in 1..Len(word_dict)}
NoSharedId == \A j, k \in 1..Len(word_dict) : word_dict[j].value = word_dict[k].value => j = k
TrainBuilt == train_results # None
TrainRow(i) == Get(train_results).count[i]

\* C1 as stated: every decoded row of a record whose term-ids all belong to
\* the vocabulary has one entry per vocabulary term, and its entries sum to
\* the sum of the counts of the record's pairs.
C1_RowSumAsStated ==
    TrainBuilt =>
        \A i \in 1..Len(train_data_count) :
            LET ps == RecordOf(train_data_count[i])[2]
            IN PairIds(ps) \subseteq VocabIds =>
                  /\ Len(TrainRow(i)) = Len(word_dict)
                  /\ SumSeq(TrainRow(i)) = SumSeq(PairCounts(ps))

\* C1 amended: every decoded row has one entry per vocabulary term; its
\* entries sum to the sum of the counts of the record's pairs when the
\* record's term-ids all belong to the vocabulary, no term-id occurs in two
\* pairs of the record, and no two terms of the vocabulary share an id.
C1_RowLengthAndSum ==
    TrainBuilt =>
        \A i \in 1..Len(train_data_count) :
            LET ps == RecordOf(train_data_count[i])[2]
            IN /\ Len(TrainRow(i)) = Len(word_dict)
               /\ (PairIds(ps) \subseteq VocabIds /\ NoRepeatedId(ps) /\ NoSharedId)
                     => SumSeq(TrainRow(i)) = SumSeq(PairCounts(ps))

\* a record of two pairs with different ids of a three-term vocabulary of
\* different ids has been decoded
C1_Witness ==
    /\ TrainBuilt
    /\ Len(word_dict) = 3
    /\ NoSharedId
    /\ \E i \in 1..Len(train_data_count) :
          LET ps == RecordOf(train_data_count[i])[2]
          IN Len(ps) = 2 /\ NoRepeatedId(ps) /\ PairIds(ps) \subseteq VocabIds

\* C2: entry j of a decoded row is 0 when the record has no pair for the id
\* that is the j-th value of the vocabulary in insertion order, and otherwise
\* the count of a pair of the record with that id; the pairs (id_a, 3),
\* (id_b, 1) with id_a the first and id_b the third value of a three-term
\* vocabulary decode to [3, 0, 1] (here with the counts 2 and 1: [2, 0, 1]).
C2_EntryIsCountOfColumnId ==
    TrainBuilt =>
        \A i \in 1..Len(train_data_count) :
            LET ps == RecordOf(train_data_count[i])[2]
            IN \A j \in 1..Len(word_dict) :
                  LET given == {ps[q][2] : q \in {q \in 1..Len(ps) : ps[q][1] = word_dict[j].value}}
                  IN IF given = {} THEN TrainRow(i)[j] = 0
                     ELSE TrainRow(i)[j] \in given

\* the spec's example on a vocabulary whose ids are not in ascending order:
\* the pairs name the first and the third value and decode to [2, 0, 1]
C2_Witness ==
    /\ TrainBuilt
    /\ Len(word_dict) = 3
    /\ word_dict[1].value > word_dict[3].value
    /\ \E i \in 1..Len(train_data_count) :
          /\ RecordOf(train_data_count[i])[2]
                = <<<<word_dict[1].value, 2>>, <<word_dict[3].value, 1>>>>
          /\ word_dict[2].value \notin {word_dict[1].value, word_dict[3].value}
          /\ TrainRow(i) = <<2, 0, 1>>

TextBeforeComma(line) == SubSeq(line, 1, Find(line, ",", 1) - 1)

\* C3: on a file of records, clean_count_and_labels returns one row and one
\* label per line, in the order of the lines: row i is the decoding of the
\* pairs of line i, labels[i] the text before the first comma of line i, and
\* the matrix has one row per line and one column per vocabulary term.
C3_OneRowAndLabelPerLine ==
    (pc # "cell3" /\ pc # "cell5" /\ \A i \in 1..Len(train_data_count) :
                                       IsCountLine(train_data_count[i]))
    => /\ TrainBuilt
       /\ Len(Get(train_results).count) = Len(train_data_count)
       /\ Len(Get(train_results).labels) = Len(train_data_count)
       /\ Get(full_train_count_values).shape = <<Len(train_data_count), Len(word_dict)>>
       /\ \A i \in 1..Len(train_data_count) :
             LET r == RecordOf(train_data_count[i])
             IN /\ Get(train_results).labels[i] = TextBeforeComma(train_data_count[i])
                /\ Get(train_results).labels[i] = r[1]
                /\ TrainRow(i) = count_row(count_dict_of(r[2]), word_dict)
                /\ todense(Get(full_train_count_values))[i] = TrainRow(i)

\* a file of two records with different labels and different rows was built
C3_Witness ==
    /\ TrainBuilt
    /\ Len(train_data_count) = 2
    /\ Get(train_results).labels[1] # Get(train_results).labels[2]
    /\ TrainRow(1) # TrainRow(2)

HasBadLine(lines) == \E i \in 1..Len(lines) : ~IsCountLine(lines[i])
NothingSelected ==
    /\ x2 = None /\ train_count_values = None /\ dev_count_values = None
    /\ zero_r_predictions = None /\ lr_classifier = None
NothingPredicted ==
    /\ test_results = None /\ full_test_count_values = None /\ test_count_values = None
    /\ test_predictions = None /\ predictions_csv = None

\* C4: when a line of a count file has no parsable payload, the build of
\* that dataset raises: the run goes from the build's cell to the error state
\* and to no later cell, no matrix and no labels are bound for the dataset,
\* and nothing that is computed from them is bound.
C4_BadLineFailsBuild ==
    /\ HasBadLine(train_data_count) =>
          /\ pc \in {"cell3", "cell5", "error"}
          /\ train_results = None /\ full_train_count_values = None
          /\ dev_results = None /\ NothingSelected /\ NothingPredicted
    /\ HasBadLine(dev_data_count) =>
          /\ pc \in {"cell3", "cell5", "cell6", "error"}
          /\ dev_results = None /\ full_dev_count_values = None
          /\ NothingSelected /\ NothingPredicted
    /\ HasBadLine(test_data_count) =>
          /\ pc \notin {"cell22", "cell23", "done"}
          /\ NothingPredicted

\* the build of a training file failed on its second line, after a first line
\* that decodes
C4_Witness ==
    /\ pc = "error"
    /\ Len(train_data_count) = 2
    /\ IsCountLine(train_data_count[1])
    /\ ~IsCountLine(train_data_count[2])
    /\ train_results = None
    /\ word_dict # <<>>

Fitted == x2 # None /\ Get(x2).scores_ # None
Scores == Get(Get(x2).scores_)
Support == get_support(Get(x2))
Selected == {Support[p] : p \in 1..Len(Support)}
ScoreEq(a, b) == ~ScoreLess(a, b) /\ ~ScoreLess(b, a)

\* C5 as stated: fit selects exactly k columns, none of a lower score than an
\* unselected column, and of two columns of equal score the one of the lower
\* index ranks first: a selected column that ties with an unselected one has
\* the lower index.
C5_TiesToLowerIndex ==
    Fitted =>
        /\ Cardinality(Selected) = Get(K)
        /\ \A s \in Selected, u \in (1..Len(Scores)) \ Selected :
              /\ ~ScoreLess(Scores[s], Scores[u])
              /\ ScoreEq(Scores[s], Scores[u]) => s < u

\* C5 amended: fit selects exactly k columns, none of a lower score than an
\* unselected column (an undefined score counting as the lowest), and of two
\* columns of equal score the one of the higher index is selected first: a
\* selected column that ties with an unselected one has the higher index.
C5_TiesToHigherIndex ==
    Fitted =>
        /\ Cardinality(Selected) = Get(K)
        /\ Len(Support) = Get(K)
        /\ \A s \in Selected, u \in (1..Len(Scores)) \ Selected :
              /\ ~ScoreLess(Scores[s], Scores[u])
              /\ ScoreEq(Scores[s], Scores[u]) => s > u

\* a selected and an unselected column have the same defined score, and a
\* third column has another score
C5_Witness ==
    /\ Fitted
    /\ \E s \in Selected, u \in (1..Len(Scores)) \ Selected :
          /\ ~Scores[s].nan
          /\ ScoreEq(Scores[s], Scores[u])
          /\ \E v \in 1..Len(Scores) : ~Scores[v].nan /\ ~ScoreEq(Scores[v], Scores[s])

\* T is M reduced to the columns S, in the order of S
Projects(T, M, S) ==
    /\ T.shape = <<M.shape[1], Len(S)>>
    /\ \A i \in 1..M.shape[1] :
          todense(T)[i] = [p \in 1..Len(S) |-> todense(M)[i][S[p]]]

\* C6: the projection of a matrix has the rows of the matrix and exactly its
\* selected columns, in the ascending order of the selected set, with their
\* entries unchanged; the row [2, 0, 1] projected on the first and third
\* column is [2, 1].
C6_TransformKeepsSelectedColumns ==
    /\ train_count_values # None =>
          Projects(Get(train_count_values), Get(full_train_count_values), Support)
    /\ dev_count_values # None =>
          Projects(Get(dev_count_values), Get(full_dev_count_values), Support)

\* the row [2, 0, 1] was projected on the first and third column
C6_Witness ==
    /\ train_count_values # None
    /\ Support = <<1, 3>>
    /\ todense(Get(full_train_count_values))[1] = <<2, 0, 1>>
    /\ todense(Get(train_count_values))[1] = <<2, 1>>

\* C9: with k the number of vocabulary terms the projection of a matrix is
\* the matrix itself, its columns in their order.
C9_SelectAllIsIdentity ==
    (Fitted /\ Get(K) = Len(word_dict)) =>
        /\ train_count_values # None => train_count_values = full_train_count_values
        /\ dev_count_values # None => dev_count_values = full_dev_count_values

\* a matrix of three columns with different scores was projected with k = 3
C9_Witness ==
    /\ Fitted
    /\ Get(K) = 3
    /\ Len(word_dict) = 3
    /\ dev_count_values # None
    /\ train_count_values = full_train_count_values
    /\ ScoreLess(Scores[1], Scores[2])
    /\ ScoreLess(Scores[3], Scores[1])

FitHasRun == K # None /\ pc # "cell7fit"
FitFailed ==
    /\ pc = "error"
    /\ Get(x2).scores_ = None
    /\ train_count_values = None
    /\ dev_count_values = None

\* C10 as stated: fit with a k above the number of vocabulary terms, or with a
\* k that is not positive, raises: no column is selected, no matrix projected.
C10_NonPositiveKFails ==
    (FitHasRun /\ (Get(K) > Len(word_dict) \/ Get(K) <= 0)) => FitFailed

\* C10 amended: fit with a k above the number of vocabulary terms, or with a
\* negative k, raises: no column is selected and no matrix is projected.  A k
\* from 0 to the number of terms is accepted; with k = 0 no column is
\* selected and the projections have no column.
C10_KOutOfRangeFails ==
    FitHasRun =>
        /\ (Get(K) > Len(word_dict) \/ Get(K) < 0) => FitFailed
        /\ (0 <= Get(K) /\ Get(K) <= Len(word_dict)) => Fitted /\ pc # "error"
        /\ Get(K) = 0 =>
              /\ Support = <<>>
              /\ train_count_values # None => Get(train_count_values).shape[2] = 0
              /\ dev_count_values # None => Get(dev_count_values).shape[2] = 0

\* fit raised on a k one above the three terms of the vocabulary
C10_Witness ==
    /\ FitHasRun
    /\ Len(word_dict) = 3
    /\ Get(K) = 4
    /\ FitFailed

\* the projection P of the full matrix M is the one transform gives again, has
\* k columns, and its column j is column Support[j] of M
SameProjection(P, M) ==
    P # None =>
        /\ Fitted
        /\ transform(Get(x2), Get(M)) = P
        /\ Get(P).shape[2] = Get(K)
        /\ Projects(Get(P), Get(M), Support)

\* C7: projecting a matrix again with the same selected set gives the same
\* matrix, and the projected training, development and test matrices all
\* have k columns, column j of each being the same column of the vocabulary.
C7_SameColumnsInAllThree ==
    /\ SameProjection(train_count_values, full_train_count_values)
    /\ SameProjection(dev_count_values, full_dev_count_values)
    /\ SameProjection(test_count_values, full_test_count_values)

\* the three matrices were projected on some but not all columns, and the
\* test matrix has an entry in a selected column
C7_Witness ==
    /\ pc = "done"
    /\ train_count_values # None
    /\ dev_count_values # None
    /\ test_count_values # None
    /\ Get(K) > 0
    /\ Get(K) < Len(word_dict)
    /\ Get(test_count_values).nz # {}

\* the selector fitted from the vocabulary file, the training file and k alone
SelectionFromTraining ==
    LET d == word_dict_loop(vocabulary, <<>>).dict
        r == clean_count_and_labels(train_data_count, d)
    IN fit(SelectKBest(Get(K)), csr_matrix(Get(r).count), Get(r).labels)

\* C8: the selected set is a function of the vocabulary, the training
\* records and labels and k: runs that differ only in their development and
\* test records select the same columns.
C8_SelectionFromTrainingOnly ==
    Fitted =>
        /\ x2 = SelectionFromTraining
        /\ Support = get_support(Get(SelectionFromTraining))

\* a run with development and test records that do not occur among the
\* training records has selected some but not all columns
C8_Witness ==
    /\ Fitted
    /\ pc = "done"
    /\ Get(K) > 0
    /\ Get(K) < Len(word_dict)
    /\ \A i \in 1..Len(dev_data_count) :
          \A j \in 1..Len(train_data_count) : dev_data_count[i] # train_data_count[j]
    /\ test_count_values # None

\* the number of occurrences of a label in the training labels
Frequency(label) == Cardinality({i \in 1..Len(train_labels) : train_labels[i] = label})
MaxFrequency == Max({Frequency(train_labels[i]) : i \in 1..Len(train_labels)})
ZeroRCalled == pc # "cell9"
ZeroRFeaturesGiven == Get(dev_count_values)

\* C11: on a training label list that is not empty and a sparse feature
\* matrix, zero_r returns one prediction per row of the matrix, each a label
\* of the highest frequency in the training labels, whatever the entries of
\* the matrix are.
C11_ZeroRPredictsMajority ==
    (ZeroRCalled /\ train_labels # <<>> /\ ZeroRFeaturesGiven.fmt = "csr") =>
        /\ zero_r_predictions # None
        /\ Len(Get(zero_r_predictions)) = ZeroRFeaturesGiven.shape[1]
        /\ \A i \in 1..Len(Get(zero_r_predictions)) :
              /\ \E k \in 1..Len(train_labels) : train_labels[k] = Get(zero_r_predictions)[i]
              /\ Frequency(Get(zero_r_predictions)[i]) = MaxFrequency

\* the label that two of three training labels carry, not the first of the
\* list, was predicted for both rows of a matrix with entries
C11_Witness ==
    /\ ZeroRCalled
    /\ train_labels = <<<<"S">>, <<"N", "E">>, <<"N", "E">>>>
    /\ ZeroRFeaturesGiven.shape[1] = 2
    /\ ZeroRFeaturesGiven.nz # {}
    /\ zero_r_predictions = Some(<<<<"N", "E">>, <<"N", "E">>>>)

\* the place of the first occurrence of a label in the training labels
FirstOccurrence(label) == Min({k \in 1..Len(train_labels) : train_labels[k] = label})
\* the labels of the highest frequency
MostFrequent == {train_labels[k] : k \in {k \in 1..Len(train_labels) :
                                            Frequency(train_labels[k]) = MaxFrequency}}

\* C19: when several labels share the highest frequency in the training
\* labels, zero_r predicts for every row the one of them that occurs first in
\* the training label list; on an empty training label list zero_r raises and
\* returns no prediction.
C19_ZeroRTieAndEmpty ==
    ZeroRCalled =>
        /\ train_labels = <<>> => (zero_r_predictions = None /\ pc = "error")
        /\ (train_labels # <<>> /\ ZeroRFeaturesGiven.fmt = "csr") =>
              /\ zero_r_predictions # None
              /\ \A i \in 1..Len(Get(zero_r_predictions)) :
                    /\ Get(zero_r_predictions)[i] \in MostFrequent
                    /\ \A other \in MostFrequent :
                          FirstOccurrence(Get(zero_r_predictions)[i]) <= FirstOccurrence(other)

\* two labels occur once each, and the first of the list was predicted for
\* both rows
C19_Witness ==
    /\ ZeroRCalled
    /\ train_labels = <<<<"S">>, <<"N", "E">>>>
    /\ Cardinality(MostFrequent) = 2
    /\ zero_r_predictions = Some(<<<<"S">>, <<"S">>>>)

CsvWritten == predictions_csv # None
CsvRows == Get(predictions_csv)

\* C12: predictions.csv holds the header row (id, region) and then one row per
\* test record, in the order of the test file: the n-th data row has the id
\* n, so the ids are 1, 2, ..., N, and the label predicted for the n-th test
\* record.
C12_CsvIdsAndRegions ==
    CsvWritten =>
        /\ CsvRows[1] = <<<<"i", "d">>, <<"r", "e", "g", "i", "o", "n">>>>
        /\ Len(CsvRows) = 1 + Len(test_data_count)
        /\ Len(Get(test_predictions)) = Len(test_data_count)
        /\ \A n \in 1..Len(test_data_count) :
              /\ Len(CsvRows[n + 1]) = 2
              /\ int(CsvRows[n + 1][1]) = Some(n)
              /\ CsvRows[n + 1][2] = Get(test_predictions)[n]

\* the file of a run on two test records with different predicted labels
C12_Witness ==
    /\ pc = "done"
    /\ CsvWritten
    /\ Len(test_data_count) = 2
    /\ Len(CsvRows) = 3
    /\ Get(test_predictions)[1] # Get(test_predictions)[2]

\* the term and the id a line of the vocabulary file was written from
VocabEntries == {<<TermNames[n], id>> : n \in 1..Len(TermNames), id \in TermIds}
VocabEntryOf(line) == CHOOSE e \in VocabEntries : VocabLine(e[1], e[2]) = line
LineTerm(i) == <<VocabEntryOf(vocabulary[i])[1]>>
LineId(i) == VocabEntryOf(vocabulary[i])[2]
FirstLine(term) == Min({i \in 1..Len(vocabulary) : LineTerm(i) = term})
LastLine(term) == Max({i \in 1..Len(vocabulary) : LineTerm(i) = term})
VocabularyLoaded == pc # "cell3"
\* one column per distinct term, each with the id of the term's last line
OneColumnPerTerm ==
    /\ Len(word_dict) = Cardinality({LineTerm(i) : i \in 1..Len(vocabulary)})
    /\ \A i \in 1..Len(vocabulary) : \E j \in 1..Len(word_dict) : word_dict[j].key = LineTerm(i)
    /\ \A j \in 1..Len(word_dict) :
          /\ \E i \in 1..Len(vocabulary) : word_dict[j].key = LineTerm(i)
          /\ word_dict[j].value = LineId(LastLine(word_dict[j].key))
    /\ TrainBuilt => \A i \in 1..Len(train_data_count) :
          TrainRow(i) \in [1..Len(word_dict) -> Nat]

\* C13 as stated: the loaded vocabulary has one column per distinct term, a
\* repeated term has the id of its last occurrence, and the ids stand in the
\* columns in the order in which the source gives them: the ids of the
\* columns, read from the first column on, are met in this order on reading
\* the ids of the lines from the first line on.
C13_IdsInSourceOrder ==
    VocabularyLoaded =>
        /\ OneColumnPerTerm
        /\ \E f \in [1..Len(word_dict) -> 1..Len(vocabulary)] :
              /\ \A j, k \in 1..Len(word_dict) : j < k => f[j] < f[k]
              /\ \A j \in 1..Len(word_dict) : LineId(f[j]) = word_dict[j].value

\* C13 amended: the loaded vocabulary has one column per distinct term, a
\* repeated term has the id of its last occurrence, and the columns stand in
\* the order of the first occurrences of their terms; the ids are in the
\* order of their lines when no term is repeated.
C13_ColumnsInFirstOccurrenceOrder ==
    VocabularyLoaded =>
        /\ OneColumnPerTerm
        /\ \A j, k \in 1..Len(word_dict) :
              j < k => FirstLine(word_dict[j].key) < FirstLine(word_dict[k].key)

\* a vocabulary file whose third line repeats the term of its first line with
\* another id, after the line of another term, has been loaded
C13_Witness ==
    /\ VocabularyLoaded
    /\ Len(vocabulary) = 3
    /\ LineTerm(1) = LineTerm(3)
    /\ LineTerm(2) # LineTerm(1)
    /\ LineId(3) # LineId(1)
    /\ Len(word_dict) = 2
    /\ word_dict[1] = [key |-> LineTerm(1), value |-> LineId(3)]

\* the count of the last pair of ps with the id, 0 when there is none
LastCount(ps, id) ==
    LET at == {q \in 1..Len(ps) : ps[q][1] = id}
    IN IF at = {} THEN 0 ELSE ps[Max(at)][2]
TrainTried == pc \notin {"cell3", "cell5"}
TrainWellFormed == \A i \in 1..Len(train_data_count) : IsCountLine(train_data_count[i])
TrainPairs(i) == RecordOf(train_data_count[i])[2]

\* C14: a record with a term-id that is no id of the vocabulary is decoded
\* without error; the pair with that id fills no column, and every column
\* holds the record's count for the column's own id, or 0.
C14_UnknownIdTolerated ==
    (TrainTried /\ TrainWellFormed) =>
        /\ TrainBuilt
        /\ pc # "error"
        /\ \A i \in 1..Len(train_data_count) :
              ~(PairIds(TrainPairs(i)) \subseteq VocabIds) =>
                 \A j \in 1..Len(word_dict) :
                    /\ TrainRow(i)[j] = LastCount(TrainPairs(i), word_dict[j].value)
                    /\ TrainRow(i)[j] # 0 => word_dict[j].value \in PairIds(TrainPairs(i))

\* a record with a pair of a vocabulary id and a pair of the id 3, which no
\* vocabulary has, was decoded to a row with the one count
C14_Witness ==
    /\ TrainBuilt
    /\ Len(word_dict) = 3
    /\ \E i \in 1..Len(train_data_count) :
          /\ TrainPairs(i) = <<<<word_dict[2].value, 1>>, <<3, 2>>>>
          /\ 3 \notin VocabIds
          /\ SumSeq(TrainRow(i)) = 1
          /\ TrainRow(i)[2] = 1

\* C18: a record whose pair list has a term-id more than once is decoded
\* without error, and the column of that id holds the count of the last pair
\* with the id, not the sum of the counts.
C18_RepeatedIdLastWins ==
    (TrainTried /\ TrainWellFormed) =>
        /\ TrainBuilt
        /\ \A i \in 1..Len(train_data_count) :
              ~NoRepeatedId(TrainPairs(i)) =>
                 \A j \in 1..Len(word_dict) :
                    \A q \in 1..Len(TrainPairs(i)) :
                       (/\ TrainPairs(i)[q][1] = word_dict[j].value
                        /\ \A r \in (q + 1)..Len(TrainPairs(i)) :
                              TrainPairs(i)[r][1] # word_dict[j].value)
                          => TrainRow(i)[j] = TrainPairs(i)[q][2]

\* a record with the pairs (id, 1), (id, 2) of one vocabulary id was decoded
\* to a row with the count 2 in the column of the id
C18_Witness ==
    /\ TrainBuilt
    /\ NoSharedId
    /\ \E i \in 1..Len(train_data_count) :
          \E j \in 1..Len(word_dict) :
             /\ TrainPairs(i) = <<<<word_dict[j].value, 1>>, <<word_dict[j].value, 2>>>>
             /\ TrainRow(i)[j] = 2
             /\ SumSeq(TrainRow(i)) = 2

\* a transform, a classifier or a prediction has left a result
SelectorUsed ==
    \/ train_count_values # None \/ dev_count_values # None \/ test_count_values # None
    \/ zero_r_predictions # None \/ lr_classifier # None \/ test_predictions # None

\* C15: in every run x2.fit is called at most once, and exactly once in a run
\* that reaches its end; it is called on the training matrix and the training
\* labels; no transform, classifier fit or prediction comes before it, and
\* no later step fits the selector again.
C15_FitOnceOnTrainingFirst ==
    /\ fit_calls <= 1
    /\ fit_calls = 0 => (~Fitted /\ ~SelectorUsed)
    /\ (Fitted \/ SelectorUsed) =>
          /\ fit_calls = 1
          /\ x2 = fit(SelectKBest(Get(K)), Get(full_train_count_values), train_labels)
    /\ pc = "done" => fit_calls = 1

\* a run has reached its end through the three transforms, the classifiers
\* and the predictions with one call of fit
C15_Witness ==
    /\ pc = "done"
    /\ fit_calls = 1
    /\ Fitted
    /\ test_count_values # None
    /\ lr_classifier # None
    /\ Len(train_data_count) = 2

\* every stage of the list has left its result only if every stage before it
\* in the list has
InOrder(stages) == \A i, j \in 1..Len(stages) : (i < j /\ stages[j]) => stages[i]
LoadingDone == pc # "cell3"
TrainMatrixBuilt == train_results # None /\ full_train_count_values # None
DevMatrixBuilt == dev_results # None /\ full_dev_count_values # None
TestMatrixBuilt == test_results # None /\ full_test_count_values # None

\* C16 as stated: the stages leave their results in the order loading,
\* decoding and matrix assembly of the three datasets, selector fit,
\* projection of the three datasets, classifier fit and prediction, output:
\* the train, dev and test matrices are built before the selector is fitted
\* and all three are projected before a classifier is fitted.
C16_ThreeMatricesBeforeFit ==
    InOrder(<<LoadingDone, TrainMatrixBuilt, DevMatrixBuilt, TestMatrixBuilt,
              fit_calls > 0, Fitted,
              train_count_values # None, dev_count_values # None,
              test_count_values # None,
              zero_r_predictions # None, lr_classifier # None,
              test_predictions # None, predictions_csv # None>>)

\* C16 amended: the stages run one after another in the order loading,
\* decoding and matrix assembly of the training and of the development set,
\* selector fit, projection of the training and of the development set,
\* classifier fit and prediction on the development set; the test set is
\* decoded, assembled and projected after the classifiers are fitted, and
\* then predicted and written out.
C16_TestBuiltAfterClassifiers ==
    InOrder(<<LoadingDone, TrainMatrixBuilt, DevMatrixBuilt,
              K # None, fit_calls > 0, Fitted,
              train_count_values # None, dev_count_values # None,
              zero_r_predictions # None, lr_classifier # None,
              TestMatrixBuilt, test_count_values # None,
              test_predictions # None, predictions_csv # None>>)

\* the classifiers are fitted on the projected training set and the test
\* file is not yet decoded
C16_Witness ==
    /\ pc = "cell21"
    /\ Fitted
    /\ train_count_values # None
    /\ dev_count_values # None
    /\ lr_classifier # None
    /\ test_results = None
    /\ full_test_count_values = None

\* a value that is bound stays as it is
Kept(now, next) == now # None => next = now

\* C17: once built, the vocabulary (its terms, ids and order) and the
\* selected set are not modified: no call of clean_count_and_labels and no
\* transform, nor any later step, changes the vocabulary, the fitted
\* selector or a full matrix, and the three matrices are built on the same
\* vocabulary.
C17_VocabularyAndSelectionReadOnly ==
    /\ [][/\ LoadingDone => word_dict' = word_dict
          /\ Fitted => x2' = x2
          /\ Kept(K, K')
          /\ Kept(full_train_count_values, full_train_count_values')
          /\ Kept(full_dev_count_values, full_dev_count_values')
          /\ Kept(full_test_count_values, full_test_count_values')]_vars
    /\ [](/\ full_train_count_values # None =>
                Get(full_train_count_values).shape[2] = Len(word_dict)
          /\ full_dev_count_values # None =>
                Get(full_dev_count_values).shape[2] = Len(word_dict)
          /\ full_test_count_values # None =>
                Get(full_test_count_values).shape[2] = Len(word_dict))

\* the three matrices are built and projected on a vocabulary of three terms
\* of which the selector keeps some
C17_Witness ==
    /\ pc = "done"
    /\ Len(word_dict) = 3
    /\ Fitted
    /\ Len(Support) < Len(word_dict)
    /\ train_count_values # None
    /\ dev_count_values # None
    /\ test_count_values # None
    /\ Get(full_test_count_values).shape[2] = 3

====
